---- MODULE Spec2Model ----
(***************************************************************************)
(* A model of the bluelink client: the BlueLink account session            *)
(* (construction, login, the cached cars property), the Car handle and its *)
(* six remote actions, the shared response validation, and the command     *)
(* dispatch helper utils.get.                                              *)
(*                                                                         *)
(* Python values are modelled as follows.                                  *)
(*   - A text that the program formats or inspects (an error message, an   *)
(*     action label, a failure message) is a sequence of words, so that    *)
(*     an f-string is a concatenation and "contains" is a search for a     *)
(*     contiguous run of words.                                            *)
(*   - A dict is a function from its keys; the empty dict has the empty    *)
(*     domain and is falsy, every other dict is truthy.                    *)
(*   - A call either returns a value or raises: [kind |-> "return", ...]   *)
(*     or [kind |-> "raise", exc |-> <exception class>, msg |-> <text>].   *)
(*   - The remote service is the environment: every response is drawn      *)
(*     from the set Responses.                                             *)
(***************************************************************************)
EXTENDS Integers, Sequences, FiniteSets, TLC

VARIABLES
    bluelink,   \* the BlueLink object of the caller (live = FALSE: none yet)
    handles,    \* the Car objects the caller has received from cars
    net,        \* every request sent on the shared requests.Session, in order
    last        \* the last call made: its name, arguments, outcome, the requests
                \* it sent, the calls of validate it made, the lines it printed

vars == <<bluelink, handles, net, last>>

(***************************************************************************)
(* Bounds of the model.                                                    *)
(***************************************************************************)
\* No call is made that would take the request log past this length.
MaxRequests == 5

(***************************************************************************)
(* Texts as sequences of words.                                            *)
(***************************************************************************)
\* s occurs in t as a contiguous run of words (Python: s in t).
Contains(t, s) ==
    \E i \in 0..(Len(t) - Len(s)) :
        \A j \in 1..Len(s) : t[i + j] = s[j]

HOME == "https://owners.hyundaiusa.com"

SUCCESS == "Z:Success"

BadGateway == <<"Bad", "Gateway">>

PendingText ==
    <<"Unable", "to", "send", "your", "request", "because", "a", "previous",
      "request", "is", "pending.", "Please", "wait", "and", "try", "again",
      "later.">>

(***************************************************************************)
(* Python values.                                                          *)
(***************************************************************************)
None == "<None>"

EmptyDict == [k \in {} |-> None]

\* bool(x) of a str-or-None value and of a dict.
Truthy(x) == x # None /\ x # ""

DictTruthy(d) == DOMAIN d # {}

\* {**a, **b}: the keys of both, b's value where both have the key.
Merge(a, b) ==
    [k \in (DOMAIN a) \cup (DOMAIN b) |-> IF k \in DOMAIN b THEN b[k] ELSE a[k]]

Return(v) == [kind |-> "return", value |-> v]

Raise(e, m) == [kind |-> "raise", exc |-> e, msg |-> m]

RequestFailed(m) == Raise("RequestFailed", m)

(***************************************************************************)
(* The remote service's responses.  A response has a status code and a     *)
(* body; resp.json() either raises JSONDecodeError (parses = FALSE, the    *)
(* raw text kept in text) or yields the decoded value json, tagged with    *)
(* its Python type: a dict (its items in v), a list (elems) or None.        *)
(***************************************************************************)
Tokens == {"T1", "T2"}

V1 ==
    [VehicleNickName |-> "first", Name |-> "Sonata", Year |-> 2020,
     VinNumber |-> "VIN1", RegistrationID |-> "REG1", IsBlueLinkCar |-> TRUE]

V2 ==
    [VehicleNickName |-> "second", Name |-> "Kona", Year |-> 2019,
     VinNumber |-> "VIN2", RegistrationID |-> "REG2", IsBlueLinkCar |-> FALSE]

\* The OwnersVehiclesInfo lists the service may return: none, one, two vehicles.
VehicleLists == {<< >>, <<V1>>, <<V1, V2>>}

\* The values of RESPONSE_STRING.
Payloads ==
    {[jwt_id |-> t] : t \in Tokens}
    \cup {[OwnersVehiclesInfo |-> l] : l \in VehicleLists}
    \cup {[coord |-> [lat |-> "37.1", lon |-> "-122.1"]]}
    \cup {[MaintenanceInfo |-> <<[CurrentMileage |-> <<4, 2>>]>>]}

ResultCodes == {SUCCESS, "Z:Fail"}

FailMessages == {BadGateway, <<"Invalid", "PIN">>, <<"Bad", "Gateway", "Timeout">>}


\* An optional field: << >> when the key is absent, <<v>> when it is v.
Optional(S) == {<< >>} \cup {<<v>> : v \in S}

\* The dict with E_IFRESULT, E_IFFAILMSG and RESPONSE_STRING as given.
Envelope(r, f, p) ==
    [k \in (IF r = << >> THEN {} ELSE {"E_IFRESULT"})
           \cup (IF f = << >> THEN {} ELSE {"E_IFFAILMSG"})
           \cup (IF p = << >> THEN {} ELSE {"RESPONSE_STRING"})
       |-> IF k = "E_IFRESULT" THEN r[1]
           ELSE IF k = "E_IFFAILMSG" THEN f[1]
           ELSE p[1]]

JsonDicts ==
    {[type |-> "dict", v |-> Envelope(r, f, p)] :
        r \in Optional(ResultCodes), f \in Optional(FailMessages),
        p \in Optional(Payloads)}

JsonLists == {[type |-> "list", elems |-> l] : l \in {<< >>, <<"E_IFRESULT">>}}

JsonNull == [type |-> "NoneType"]

JsonValues == JsonDicts \cup JsonLists \cup {JsonNull}

BadText == <<"<html>", "oops", "</html>">>

Unparseable == [parses |-> FALSE, text |-> BadText, json |-> JsonNull]

Bodies ==
    {Unparseable} \cup {[parses |-> TRUE, text |-> << >>, json |-> j] : j \in JsonValues}

OK == 200

\* The statuses the service answers with: 200 and one other.
StatusCodes == {OK, 500}

NotOK == CHOOSE status \in StatusCodes : status # OK

\* Every body with status 200; validate reads no body of another status,
\* which is drawn with an unparseable body or with a success envelope.
Responses ==
    {[status_code |-> OK, body |-> b] : b \in Bodies}
    \cup {[status_code |-> NotOK, body |-> b] :
            b \in {Unparseable,
                   [parses |-> TRUE, text |-> << >>,
                    json |-> [type |-> "dict",
                              v |-> Envelope(<<SUCCESS>>, << >>, <<[jwt_id |-> "T1"]>>)]]}}

(***************************************************************************)
(* utils.validate                                                          *)
(***************************************************************************)
\* key in json, for the Python types a decoded body can have.
InJson(key, json) ==
    CASE json.type = "dict" -> Return(key \in DOMAIN json.v)
      [] json.type = "list" -> Return(\E i \in 1..Len(json.elems) : json.elems[i] = key)
      [] OTHER -> Raise("TypeError", <<"argument", "of", "type", json.type, "is", "not", "iterable">>)

\* json[key]
GetItem(json, key) ==
    CASE json.type = "dict" ->
            IF key \in DOMAIN json.v THEN Return(json.v[key])
            ELSE Raise("KeyError", <<key>>)
      [] json.type = "list" ->
            Raise("TypeError", <<"list", "indices", "must", "be", "integers">>)
      [] OTHER ->
            Raise("TypeError", <<json.type, "object", "is", "not", "subscriptable">>)

\* validateFailure with Bad Gateway passed through like any other message.
validateFailurePassThrough(json, action) ==
    LET error == GetItem(json, "E_IFFAILMSG")
    IN  IF error.kind = "raise" THEN error
        ELSE RequestFailed(<<"BlueLink">> \o action
                           \o <<"request", "failed", "due", "to:">> \o error.value)

\* The failure branch of validate: the result code is absent or not the sentinel.
validateFailure(json, action) ==
    LET error == GetItem(json, "E_IFFAILMSG")
    IN  IF error.kind = "raise" THEN error
        ELSE IF error.value = BadGateway THEN RequestFailed(PendingText)
        ELSE RequestFailed(<<"BlueLink">> \o action
                           \o <<"request", "failed", "due", "to:">> \o error.value)

validate(resp, action) ==
    IF resp.status_code # OK
    THEN RequestFailed(<<"Action">> \o action
                       \o <<"responded", "with", "status", "code",
                            ToString(resp.status_code), ".">>)
    ELSE IF ~resp.body.parses
    THEN RequestFailed(<<"Invalid", "JSON", "response", "from", "API", "for">>
                       \o action \o <<":">> \o resp.body.text)
    ELSE LET json == resp.body.json
             has == InJson("E_IFRESULT", json)
         IN  IF has.kind = "raise" THEN has
             ELSE IF ~has.value THEN validateFailure(json, action)
             ELSE LET code == GetItem(json, "E_IFRESULT")
                  IN  IF code.kind = "raise" THEN code
                      ELSE IF code.value # SUCCESS THEN validateFailure(json, action)
                      ELSE Return(json)

\* One call of validate, as recorded in last.validated.
Validated(resp, action) == [resp |-> resp, action |-> action, out |-> validate(resp, action)]

(***************************************************************************)
(* BlueLink: construction                                                  *)
(***************************************************************************)
EMAIL == "user@example.com"

PASSWORD == "hunter2"

PIN == "1234"

\* What os.environ.get returns: None when the variable is not set.  The
\* environment, where it has them, holds the credentials of the same account.
Environments ==
    [BLUELINK_EMAIL : {None, "", EMAIL},
     BLUELINK_PASSWORD : {None, "", PASSWORD},
     BLUELINK_PIN : {None, "", PIN}]

NoSession ==
    [live |-> FALSE, email |-> None, password |-> None, pin |-> None,
     _auth |-> EmptyDict, _cars |-> EmptyDict]

\* value if value else os.environ.get(name)
OrEnviron(value, fromEnv) == IF Truthy(value) THEN value ELSE fromEnv

\* BlueLinkInit with the PIN left out of the check.
BlueLinkInitNoPinCheck(email, password, pin, env) ==
    LET e == OrEnviron(email, env.BLUELINK_EMAIL)
        p == OrEnviron(password, env.BLUELINK_PASSWORD)
        n == OrEnviron(pin, env.BLUELINK_PIN)
    IN  IF ~Truthy(e) \/ ~Truthy(p)
        THEN [self |-> NoSession,
              out |-> Raise("ValueError", <<"Bluelink", "credentials", "were", "not", "provided.">>)]
        ELSE [self |-> [live |-> TRUE, email |-> e, password |-> p, pin |-> n,
                        _auth |-> EmptyDict, _cars |-> EmptyDict],
              out |-> Return(None)]

\* BlueLink.__init__: the new object, or ValueError.  The cache starts as the
\* empty list, which like the empty dict is falsy and has no keys.
BlueLinkInit(email, password, pin, env) ==
    LET e == OrEnviron(email, env.BLUELINK_EMAIL)
        p == OrEnviron(password, env.BLUELINK_PASSWORD)
        n == OrEnviron(pin, env.BLUELINK_PIN)
    IN  IF ~Truthy(e) \/ ~Truthy(p) \/ ~Truthy(n)
        THEN [self |-> NoSession,
              out |-> Raise("ValueError", <<"Bluelink", "credentials", "were", "not", "provided.">>)]
        ELSE [self |-> [live |-> TRUE, email |-> e, password |-> p, pin |-> n,
                        _auth |-> EmptyDict, _cars |-> EmptyDict],
              out |-> Return(None)]

(***************************************************************************)
(* BlueLink.login                                                          *)
(***************************************************************************)
CSRF == "csrf-1"

\* The responses to the first GET, of which login reads json()["jwt_token"]
\* whatever the status.
CsrfResponses ==
    {[status_code |-> OK, body |-> b] :
        b \in {Unparseable,
               [parses |-> TRUE, text |-> << >>, json |-> [type |-> "dict", v |-> EmptyDict]],
               [parses |-> TRUE, text |-> << >>,
                json |-> [type |-> "dict", v |-> [jwt_token |-> CSRF]]]}}

Request(method, path, data) == [method |-> method, url |-> <<HOME, path>>, data |-> data]

TokenGet == Request("GET", "/etc/designs/ownercommon/us/token.json", EmptyDict)

CsrfGet(csrf) == Request("GET", "/libs/granite/csrf/token.json", [csrf_token |-> csrf])

ConnectPost(self, csrf) ==
    Request("POST", "/bin/common/connectCar",
            (":cq_csrf_token" :> csrf)
            @@ [username |-> self.email, password |-> self.password,
                url |-> <<HOME, "/us/en/index.html">>])

\* resp.json()
ResponseJson(resp) ==
    IF resp.body.parses THEN Return(resp.body.json)
    ELSE Raise("JSONDecodeError", resp.body.text)

\* d[key] of a plain dict d.
DictGet(d, key) ==
    IF key \in DOMAIN d THEN Return(d[key]) ELSE Raise("KeyError", <<key>>)

\* json["RESPONSE_STRING"][key]
ResponseString(json, key) ==
    LET rs == GetItem(json, "RESPONSE_STRING")
    IN  IF rs.kind = "raise" THEN rs ELSE DictGet(rs.value, key)

Result(self, sent, validated, out) ==
    [self |-> self, sent |-> sent, validated |-> validated, out |-> out]

\* login once the final response is validated and the token looked up.
loginStore(self, sent, v, jwt) ==
    IF jwt.kind = "raise" THEN Result(self, sent, <<v>>, jwt)
    ELSE Result([self EXCEPT !._auth =
                    [username |-> self.email, pin |-> self.pin, token |-> jwt.value]],
                sent, <<v>>, Return(None))

\* login once the final response is validated: v is that call of validate.
loginValidated(self, sent, v) ==
    IF v.out.kind = "raise" THEN Result(self, sent, <<v>>, v.out)
    ELSE loginStore(self, sent, v, ResponseString(v.out.value, "jwt_id"))

\* The tail of login, from the credentials POST on.
loginPost(self, csrf, sentBefore, resp3) ==
    loginValidated(self, Append(sentBefore, ConnectPost(self, csrf)),
                   Validated(resp3, <<"login">>))

\* loggedIn with the early return lost.
loggedInNever(self) == FALSE

\* Whether login returns at once.
loggedIn(self) == DictTruthy(self._auth)

\* resp.json()["jwt_token"] of the first response.
csrfOf(resp1) ==
    LET json1 == ResponseJson(resp1)
    IN  IF json1.kind = "raise" THEN json1 ELSE GetItem(json1.value, "jwt_token")

\* login from the second GET on, csrf being the outcome of reading the first.
loginCsrf(self, csrf, status2, resp3) ==
    IF csrf.kind = "raise" THEN Result(self, <<TokenGet>>, << >>, csrf)
    ELSE IF status2 # OK
    THEN Result(self, <<TokenGet, CsrfGet(csrf.value)>>, << >>,
                RequestFailed(<<"Failed", "to", "get", "CSRF", "token.">>))
    ELSE loginPost(self, csrf.value, <<TokenGet, CsrfGet(csrf.value)>>, resp3)

login(self, resp1, status2, resp3) ==
    IF loggedIn(self) THEN Result(self, << >>, << >>, Return(None))
    ELSE loginCsrf(self, csrfOf(resp1), status2, resp3)

(***************************************************************************)
(* BlueLink.cars                                                           *)
(***************************************************************************)
AccountPost(self, token) ==
    Request("POST", "/bin/common/MyAccountServlet",
            [username |-> self.email, token |-> token,
             url |-> <<HOME, "/us/en/page/dashboard.html">>,
             service |-> "getOwnerInfoService"])

\* Car.__init__ as cars calls it.
Car(info, auth) ==
    [nickname |-> info.VehicleNickName, model |-> info.Name, year |-> info.Year,
     vin |-> info.VinNumber, uid |-> info.RegistrationID,
     bluelink |-> info.IsBlueLinkCar, _auth |-> auth, _info |-> info]

\* The dict the loop of cars builds: a later entry replaces an earlier one
\* of the same VIN.
CarsOf(infos, auth) ==
    [vin \in {infos[i].VinNumber : i \in 1..Len(infos)} |->
        LET i == CHOOSE i \in 1..Len(infos) :
                    /\ infos[i].VinNumber = vin
                    /\ \A j \in (i + 1)..Len(infos) : infos[j].VinNumber # vin
        IN  Car(infos[i], auth)]

\* cars once the mapping new is built: it is cached and returned.
carsCache(self, sent, v, new) ==
    Result([self EXCEPT !._cars = new], sent, <<v>>, Return(new))

\* cars once the vehicle list is looked up in the validated response.
carsStore(self, sent, v, infos) ==
    IF infos.kind = "raise" THEN Result(self, sent, <<v>>, infos)
    ELSE carsCache(self, sent, v, CarsOf(infos.value, self._auth))

\* cars once the response is validated: v is that call of validate.
carsValidated(self, sent, v) ==
    IF v.out.kind = "raise" THEN Result(self, sent, <<v>>, v.out)
    ELSE carsStore(self, sent, v, ResponseString(v.out.value, "OwnersVehiclesInfo"))

\* cars from the account request on, token being self._auth["token"].
carsFetch(self, token, resp) ==
    IF token.kind = "raise" THEN Result(self, << >>, << >>, token)
    ELSE carsValidated(self, <<AccountPost(self, token.value)>>,
                       Validated(resp, <<"get", "cars">>))

\* cached with the cache never consulted.
cachedNever(self) == FALSE

\* Whether cars answers from the cache.
cached(self) == DictTruthy(self._cars)

\* authenticated with the login check lost.
authenticatedAlways(self) == TRUE

\* Whether cars lets the caller through.
authenticated(self) == DictTruthy(self._auth)

cars(self, resp) ==
    IF ~authenticated(self)
    THEN Result(self, << >>, << >>, RequestFailed(<<"You", "must", "login", "first.">>))
    ELSE IF cached(self) THEN Result(self, << >>, << >>, Return(self._cars))
    ELSE carsFetch(self, DictGet(self._auth, "token"), resp)

(***************************************************************************)
(* Car                                                                     *)
(***************************************************************************)
\* endpoint with the one path for every action.
endpointCommon(action) == "remoteAction"

\* The path _request posts to.
endpoint(action) ==
    IF action = "getRecMaintenanceTimeline" THEN "VehicleHealthServlet" ELSE "remoteAction"

\* requestData with the auth context left out of the form data.
requestDataNoAuth(self, action, headers) ==
    Merge([vin |-> self.vin, url |-> HOME, gen |-> 2, regId |-> self.uid,
           service |-> action],
          headers)

\* The form data of _request.
requestData(self, action, headers) ==
    Merge(Merge(self._auth,
                [vin |-> self.vin, url |-> HOME, gen |-> 2, regId |-> self.uid,
                 service |-> action]),
          headers)

\* _request once the response is validated: it returns what validate did.
requestValidated(self, sent, v) == Result(self, sent, <<v>>, v.out)

_request(self, action, headers, resp) ==
    requestValidated(self,
                     <<Request("POST", "/bin/common/" \o endpoint(action),
                               requestData(self, action, headers))>>,
                     Validated(resp, <<action>>))

\* The value an action returns once _request has returned r.
Then(r, value) == IF r.out.kind = "raise" THEN r ELSE [r EXCEPT !.out = value]

lock(self, resp) == Then(_request(self, "remotelock", EmptyDict, resp), Return(TRUE))

unlock(self, resp) == Then(_request(self, "remoteunlock", EmptyDict, resp), Return(TRUE))

\* json.dumps of the seat heat dict.
SeatHeaterVentInfo(driver, passenger) ==
    <<"{", "\"drvSeatHeatState\":", ToString(driver), ",",
      "\"astSeatHeatState\":", ToString(passenger), "}">>

\* start, its five arguments in the record a.
start(self, a, resp) ==
    Then(_request(self, "ignitionstart",
                  [airCtrl |-> "true", igniOnDuration |-> a.duration,
                   airTempvalue |-> a.temp, defrost |-> a.defrost, heating1 |-> "0",
                   seatHeaterVentInfo |->
                       SeatHeaterVentInfo(a.driver_seat_heat, a.passenger_seat_heat)],
                  resp),
         Return(TRUE))

stop(self, resp) == Then(_request(self, "ignitionstop", EmptyDict, resp), Return(TRUE))

\* find once resp["RESPONSE_STRING"]["coord"] is looked up.
findCoordinates(r, coordinates) ==
    IF coordinates.kind = "raise" THEN [r EXCEPT !.out = coordinates]
    ELSE [r EXCEPT !.out = Return(<<coordinates.value.lat, coordinates.value.lon>>)]

\* find once _request has returned r.
findResult(r) ==
    IF r.out.kind = "raise" THEN r
    ELSE findCoordinates(r, ResponseString(r.out.value, "coord"))

find(self, resp) == findResult(_request(self, "getFindMyCar", EmptyDict, resp))

\* int(s) of a decimal text, given as its digits.
RECURSIVE IntOf(_)
IntOf(digits) ==
    IF digits = << >> THEN 0
    ELSE 10 * IntOf(SubSeq(digits, 1, Len(digits) - 1)) + digits[Len(digits)]

\* odometer once resp["RESPONSE_STRING"]["MaintenanceInfo"] is looked up.
odometerMileage(r, records) ==
    IF records.kind = "raise" THEN [r EXCEPT !.out = records]
    ELSE IF records.value = << >>
    THEN [r EXCEPT !.out = Raise("IndexError", <<"list", "index", "out", "of", "range">>)]
    ELSE [r EXCEPT !.out = Return(IntOf(records.value[1].CurrentMileage))]

\* odometer once _request has returned r.
odometerResult(r) ==
    IF r.out.kind = "raise" THEN r
    ELSE odometerMileage(r, ResponseString(r.out.value, "MaintenanceInfo"))

odometer(self, resp) ==
    odometerResult(_request(self, "getRecMaintenanceTimeline", EmptyDict, resp))

(***************************************************************************)
(* utils.get, the command dispatch helper                                  *)
(***************************************************************************)
Funcs == {"lock", "unlock", "start", "stop", "find", "odometer"}

\* The defaults of start's arguments, which the start command passes on.
StartArgs(duration) ==
    [duration |-> duration, temp |-> "LO", defrost |-> FALSE,
     driver_seat_heat |-> 4, passenger_seat_heat |-> 4]

\* getattr(car, func), called with args when it is a method; odometer is a
\* property, read by the getattr itself.
Invoke(car, func, args, resp) ==
    CASE func = "lock" -> lock(car, resp)
      [] func = "unlock" -> unlock(car, resp)
      [] func = "start" -> start(car, args, resp)
      [] func = "stop" -> stop(car, resp)
      [] func = "find" -> find(car, resp)
      [] func = "odometer" -> odometer(car, resp)

\* What get has sent, validated and printed so far: at first, nothing.
Nothing == [sent |-> << >>, validated |-> << >>, printed |-> << >>]

\* What get has done so far (acc) with r, the call it has just made, added.
Add(acc, r) ==
    [sent |-> acc.sent \o r.sent, validated |-> acc.validated \o r.validated,
     printed |-> acc.printed]

Printed(acc, line) == [acc EXCEPT !.printed = Append(acc.printed, line)]

GetResult(acc, out) ==
    [sent |-> acc.sent, validated |-> acc.validated, printed |-> acc.printed, out |-> out]

\* The except clause of get: r is what the attribute or its call did.
getExcept(r, acc) ==
    IF r.out.kind = "raise" /\ r.out.exc = "RequestFailed"
    THEN GetResult(Printed(Add(acc, r), r.out.msg), Raise("SystemExit", <<"1">>))
    ELSE GetResult(Add(acc, r), r.out)

\* The try block of get: car is << >> for None, <<c>> for the Car c.
getCall(car, call, resp5, acc) ==
    IF car = << >>
    THEN GetResult(acc, Raise("AttributeError",
                              <<"'NoneType'", "object", "has", "no", "attribute", call.func>>))
    ELSE getExcept(Invoke(car[1], call.func, call.args, resp5), acc)

\* get once bluelink.cars[vin] is read: second is that access of cars.
getSecond(second, call, resp5, acc) ==
    IF second.out.kind = "raise" THEN GetResult(Add(acc, second), second.out)
    ELSE getCall(<<second.out.value[call.vin]>>, call, resp5, Add(acc, second))

\* get once vin in bluelink.cars is read: first is that access of cars.
getFirst(first, call, resps, acc) ==
    IF first.out.kind = "raise" THEN GetResult(Add(acc, first), first.out)
    ELSE IF call.vin \in DOMAIN first.out.value
    THEN getSecond(cars(first.self, resps.resp4), call, resps.resp5, Add(acc, first))
    ELSE getCall(<< >>, call, resps.resp5,
                 Printed(Add(acc, first), <<"Car", "with", "VIN", call.vin, "not", "found.">>))

\* get once login is called: l is that call.
getLogin(l, call, resps) ==
    IF l.out.kind = "raise" THEN GetResult(Add(Nothing, l), l.out)
    ELSE getFirst(cars(l.self, resps.resp4), call, resps, Add(Nothing, l))

\* get once BlueLink() is constructed: new is that construction.
getInit(new, call, resps) ==
    IF new.out.kind = "raise"
    THEN GetResult(Printed(Nothing,
                           <<"Credentials", "not", "found.", "See", "docs", "for", "info",
                             "on", "how", "to", "set", "them.">>),
                   Return(None))
    ELSE getLogin(login(new.self, resps.resp1, resps.status2, resps.resp3), call, resps)

\* get(vin, func, *args): call holds the three, env is the environment, resps
\* are the responses to the requests get sends.
get(call, env, resps) == getInit(BlueLinkInit(None, None, None, env), call, resps)

(***************************************************************************)
(* The state machine.  A process is either a program using the library: it *)
(* constructs one BlueLink object, then calls login, reads cars and uses   *)
(* the Car objects it got, in any order and any number of times; or it is  *)
(* one command of the command line, which runs the dispatch helper get     *)
(* once, in a fresh process, and ends.                                     *)
(***************************************************************************)
Called(op, args, r, printed) ==
    [op |-> op, args |-> args, out |-> r.out, sent |-> r.sent,
     validated |-> r.validated, printed |-> printed]

Init ==
    /\ bluelink = NoSession
    /\ handles = {}
    /\ net = << >>
    /\ last = Called("none", EmptyDict, Result(NoSession, << >>, << >>, Return(None)), << >>)

\* The call sends r.sent; it is made only if the log has room for it.
Send(r) ==
    /\ Len(net) + Len(r.sent) <= MaxRequests
    /\ net' = net \o r.sent

Constructed(args, new) ==
    /\ bluelink' = new.self
    /\ last' = Called("BlueLink", args, Result(new.self, << >>, << >>, new.out), << >>)

Construct ==
    /\ ~bluelink.live
    /\ last.op # "get"
    /\ \E email \in {None, "", EMAIL}, password \in {None, "", PASSWORD},
          pin \in {None, "", PIN}, env \in Environments :
          Constructed([email |-> email, password |-> password, pin |-> pin, env |-> env],
                      BlueLinkInit(email, password, pin, env))
    /\ UNCHANGED <<handles, net>>

\* The service answers the requests that are sent: the n-th response of a
\* call is drawn from S if the call, given the responses before it, sends an
\* n-th request, and is the fixed any otherwise (the call never reads it).
Answers(n, sent, S, any) == IF Len(sent) >= n THEN S ELSE {any}

AnyOf(S) == CHOOSE r \in S : TRUE

AnyCsrf == AnyOf(CsrfResponses)

AnyResponse == AnyOf(Responses)

LoggedIn(args, r) ==
    /\ Send(r)
    /\ bluelink' = r.self
    /\ last' = Called("login", args, r, << >>)

Login ==
    /\ bluelink.live
    /\ \E resp1 \in Answers(1, login(bluelink, AnyCsrf, OK, AnyResponse).sent,
                             CsrfResponses, AnyCsrf) :
       \E status2 \in Answers(2, login(bluelink, resp1, OK, AnyResponse).sent,
                               StatusCodes, OK) :
       \E resp3 \in Answers(3, login(bluelink, resp1, status2, AnyResponse).sent,
                             Responses, AnyResponse) :
          LoggedIn([self |-> bluelink, resp1 |-> resp1, status2 |-> status2, resp3 |-> resp3],
                   login(bluelink, resp1, status2, resp3))
    /\ UNCHANGED handles

\* The Car objects of a mapping that cars returned.
Values(d) == {d[k] : k \in DOMAIN d}

CarsRead(r) ==
    /\ Send(r)
    /\ bluelink' = r.self
    /\ handles' = IF r.out.kind = "return" THEN handles \cup Values(r.out.value) ELSE handles
    /\ last' = Called("cars", [self |-> bluelink], r, << >>)

Cars ==
    /\ bluelink.live
    /\ \E resp \in Answers(1, cars(bluelink, AnyResponse).sent, Responses, AnyResponse) :
          CarsRead(cars(bluelink, resp))

\* A call of a Car's action changes no object; it sends and records.
CarCall(op, car, r) ==
    /\ Len(net) < MaxRequests
    /\ Send(r)
    /\ last' = Called(op, [self |-> car], r, << >>)
    /\ UNCHANGED <<bluelink, handles>>

Lock == \E car \in handles, resp \in Responses : CarCall("lock", car, lock(car, resp))

Unlock == \E car \in handles, resp \in Responses : CarCall("unlock", car, unlock(car, resp))

StartDurations == {5, 10}

Start ==
    \E car \in handles, resp \in Responses, duration \in StartDurations :
        CarCall("start", car, start(car, StartArgs(duration), resp))

Stop == \E car \in handles, resp \in Responses : CarCall("stop", car, stop(car, resp))

Find == \E car \in handles, resp \in Responses : CarCall("find", car, find(car, resp))

Odometer ==
    \E car \in handles, resp \in Responses : CarCall("odometer", car, odometer(car, resp))

\* The responses the dispatch helper is run against: of each request, the
\* success and the failures that get tells apart.
Body(r, f, p) ==
    [parses |-> TRUE, text |-> << >>, json |-> [type |-> "dict", v |-> Envelope(r, f, p)]]

GetLoginResponses ==
    {[status_code |-> OK, body |-> Body(<<SUCCESS>>, << >>, <<[jwt_id |-> "T1"]>>)],
     [status_code |-> OK, body |-> Body(<<"Z:Fail">>, <<<<"Invalid", "PIN">>>>, << >>)]}

GetCarsResponses ==
    {[status_code |-> OK, body |-> Body(<<SUCCESS>>, << >>, <<[OwnersVehiclesInfo |-> l]>>)] :
        l \in VehicleLists}
    \cup {[status_code |-> NotOK, body |-> Unparseable]}

GetActionResponses ==
    {[status_code |-> OK, body |-> Body(<<SUCCESS>>, << >>, << >>)],
     [status_code |-> OK, body |-> Body(<<SUCCESS>>, << >>, <<[coord |-> [lat |-> "37.1", lon |-> "-122.1"]]>>)],
     [status_code |-> OK,
      body |-> Body(<<SUCCESS>>, << >>, <<[MaintenanceInfo |-> <<[CurrentMileage |-> <<4, 2>>]>>]>>)],
     [status_code |-> OK, body |-> Body(<<"Z:Fail">>, <<BadGateway>>, << >>)]}

GetVins == {"VIN1", "VIN2", "VIN9"}

GetResponses ==
    [resp1 : CsrfResponses, status2 : StatusCodes, resp3 : GetLoginResponses,
     resp4 : GetCarsResponses, resp5 : GetActionResponses]

GetDone(call, env, r) ==
    /\ Send(r)
    /\ last' = Called("get", [call |-> call, env |-> env], r, r.printed)

Get ==
    /\ last.op = "none"
    /\ \E vin \in GetVins, func \in Funcs, env \in Environments, resps \in GetResponses :
          LET call == [vin |-> vin, func |-> func,
                       args |-> IF func = "start" THEN StartArgs(10) ELSE EmptyDict]
          IN  GetDone(call, env, get(call, env, resps))
    /\ UNCHANGED <<bluelink, handles>>

Next ==
    \/ Construct
    \/ Login
    \/ Cars
    \/ Lock
    \/ Unlock
    \/ Start
    \/ Stop
    \/ Find
    \/ Odometer
    \/ Get

Spec == Init /\ [][Next]_vars

(***************************************************************************)
(* The claims.  Their vocabulary is defined here, apart from the model.    *)
(***************************************************************************)
NonEmpty(d) == DOMAIN d # {}

Path(req) == req.url[2]

AccountPath == "/bin/common/MyAccountServlet"

RemoteActionPath == "/bin/common/remoteAction"

MaintenancePath == "/bin/common/VehicleHealthServlet"

LoginPaths ==
    {"/etc/designs/ownercommon/us/token.json", "/libs/granite/csrf/token.json",
     "/bin/common/connectCar"}

IsFetch(req) == Path(req) = AccountPath

IsAction(req) == Path(req) \in {RemoteActionPath, MaintenancePath}

\* The account-info requests in a sequence of requests.
Fetches(reqs) == {i \in 1..Len(reqs) : IsFetch(reqs[i])}

\* The response is one validate is to return the body of: status 200, a body
\* that parses, and the result code the success sentinel.
Valid(resp) ==
    /\ resp.status_code = 200
    /\ resp.body.parses
    /\ resp.body.json.type = "dict"
    /\ "E_IFRESULT" \in DOMAIN resp.body.json.v
    /\ resp.body.json.v["E_IFRESULT"] = "Z:Success"

FailedWith(out, exc) == out.kind = "raise" /\ out.exc = exc

\* ---- C1 ----------------------------------------------------------------
\* C1 as stated, for two accesses in a row: an access of cars that follows
\* an access which returned the mapping (whatever the vehicle list, the
\* empty one included) issues no request.
C1_SecondAccessIsCached ==
    [][(last.op = "cars" /\ last.out.kind = "return" /\ last'.op = "cars")
        => last'.sent = << >>]_vars

\* C1 as amended: an access of cars made when the cache is non-empty sends
\* nothing, returns the cached mapping and changes nothing; an access by a
\* logged-in session whose cache is empty sends exactly one account-info
\* request, and caches what it returns; once the cache is non-empty no step
\* sends an account-info request or changes the cache.  So N accesses issue
\* exactly one fetch when the first returns a non-empty mapping, and a fetch
\* each time as long as the service returns zero vehicles.
C1_AccessState ==
    last.op = "cars" =>
        /\ NonEmpty(last.args.self._cars) =>
              /\ last.sent = << >>
              /\ last.out = Return(last.args.self._cars)
              /\ bluelink = last.args.self
        /\ (~NonEmpty(last.args.self._cars) /\ NonEmpty(last.args.self._auth)) =>
              /\ Len(last.sent) = 1
              /\ IsFetch(last.sent[1])
              /\ last.out.kind = "return" => bluelink._cars = last.out.value

C1_CachedForGood ==
    [][NonEmpty(bluelink._cars) =>
        /\ bluelink'._cars = bluelink._cars
        /\ Fetches(net') = Fetches(net)]_vars

\* C1 as amended, the whole of it: the state of every access of cars and the
\* steps after the cache has become non-empty.
C1_FetchedOnceWhenNonEmpty == []C1_AccessState /\ C1_CachedForGood

\* C1 witness: an access answered from the non-empty cache.
C1_Witness ==
    /\ last.op = "cars"
    /\ NonEmpty(last.args.self._cars)
    /\ last.sent = << >>
    /\ Cardinality(Fetches(net)) = 1

\* ---- C2 ----------------------------------------------------------------
\* C2: a login call on a session whose auth context is populated sends no
\* request, returns, and leaves the session as it was; and in the log of a
\* logged-in session no request of the handshake comes after the last
\* credentials POST, the one that logged it in.
C2_LoginIdempotent ==
    /\ (last.op = "login" /\ NonEmpty(last.args.self._auth)) =>
          /\ last.sent = << >>
          /\ last.out = Return(None)
          /\ bluelink = last.args.self
    /\ NonEmpty(bluelink._auth) =>
          \E k \in 3..Len(net) :
              /\ Path(net[k]) = "/bin/common/connectCar"
              /\ Path(net[k - 1]) = "/libs/granite/csrf/token.json"
              /\ Path(net[k - 2]) = "/etc/designs/ownercommon/us/token.json"
              /\ \A i \in (k + 1)..Len(net) : Path(net[i]) \notin LoginPaths

\* C2 witness: login called on a logged-in session.
C2_Witness ==
    /\ last.op = "login"
    /\ NonEmpty(last.args.self._auth)
    /\ Len(net) = 3

\* ---- C3 ----------------------------------------------------------------
\* C3: no vehicle-action request is sent without the auth context: every
\* such request in the log carries the account identifier, the PIN and the
\* token, every Car object the caller holds has a populated auth context,
\* and reading cars (the only way to a Car) before login raises the
\* authentication-required error and sends nothing.
C3_NoActionBeforeLogin ==
    /\ \A i \in 1..Len(net) :
          IsAction(net[i]) => {"username", "pin", "token"} \subseteq DOMAIN net[i].data
    /\ \A car \in handles : NonEmpty(car._auth)
    /\ last.op \in Funcs => NonEmpty(last.args.self._auth)
    /\ (last.op = "cars" /\ ~NonEmpty(last.args.self._auth)) =>
          /\ last.out = RequestFailed(<<"You", "must", "login", "first.">>)
          /\ last.sent = << >>
          /\ handles = {}

\* C3 witness: cars read before login.
C3_Witness ==
    /\ last.op = "cars"
    /\ ~NonEmpty(last.args.self._auth)
    /\ FailedWith(last.out, "RequestFailed")

\* ---- C4 ----------------------------------------------------------------
\* C4: every call of validate either returns the parsed body unchanged,
\* exactly when the response is valid, or fails with RequestFailed.
C4_ValidateTotal ==
    \A i \in 1..Len(last.validated) :
        LET v == last.validated[i]
        IN  IF Valid(v.resp) THEN v.out = Return(v.resp.body.json)
            ELSE FailedWith(v.out, "RequestFailed")

\* ---- C5 ----------------------------------------------------------------
\* C5: of a 200 response whose body is a dict with a failure message and
\* without the success code, validate raises RequestFailed; the message is
\* the pending-request text exactly when the failure message is Bad Gateway,
\* and then does not contain Bad Gateway; otherwise it contains the failure
\* message word for word.
C5_FailureMessage ==
    \A i \in 1..Len(last.validated) :
        LET v == last.validated[i]
            json == v.resp.body.json
        IN  (/\ v.resp.status_code = 200
             /\ v.resp.body.parses
             /\ json.type = "dict"
             /\ ~Valid(v.resp)
             /\ "E_IFFAILMSG" \in DOMAIN json.v) =>
                /\ FailedWith(v.out, "RequestFailed")
                /\ v.out.msg = PendingText <=> json.v["E_IFFAILMSG"] = <<"Bad", "Gateway">>
                /\ IF json.v["E_IFFAILMSG"] = <<"Bad", "Gateway">>
                   THEN ~Contains(v.out.msg, <<"Bad", "Gateway">>)
                   ELSE Contains(v.out.msg, json.v["E_IFFAILMSG"])

\* C5 witness: a vehicle action answered 200 with Z:Fail and Bad Gateway.
C5_Witness ==
    /\ last.op \in Funcs
    /\ Len(last.validated) = 1
    /\ last.validated[1].resp.status_code = 200
    /\ last.validated[1].resp.body.parses
    /\ last.validated[1].resp.body.json.type = "dict"
    /\ DOMAIN last.validated[1].resp.body.json.v = {"E_IFRESULT", "E_IFFAILMSG"}
    /\ last.validated[1].resp.body.json.v["E_IFFAILMSG"] = <<"Bad", "Gateway">>
    /\ last.out = RequestFailed(PendingText)

\* ---- C6 ----------------------------------------------------------------
\* The session token in the final response of a login.
TokenIn(resp) == resp.body.json.v["RESPONSE_STRING"].jwt_id

\* C6, the state of it: a populated auth context is {account identifier,
\* PIN, token}; the login that populates it stores the token of its final
\* response; every account-info and vehicle-action request in the log, and
\* every Car object, carries the session's token and account identifier,
\* and a vehicle-action request the PIN too.
C6_AuthState ==
    /\ NonEmpty(bluelink._auth) =>
          /\ DOMAIN bluelink._auth = {"username", "pin", "token"}
          /\ bluelink._auth.username = bluelink.email
          /\ bluelink._auth.pin = bluelink.pin
          /\ bluelink._auth.token \in Tokens
    /\ (last.op = "login" /\ ~NonEmpty(last.args.self._auth) /\ last.out.kind = "return") =>
          /\ NonEmpty(bluelink._auth)
          /\ bluelink._auth.token = TokenIn(last.args.resp3)
    /\ bluelink.live =>
          /\ \A i \in 1..Len(net) :
                (IsFetch(net[i]) \/ IsAction(net[i])) =>
                    /\ NonEmpty(bluelink._auth)
                    /\ "token" \in DOMAIN net[i].data
                    /\ net[i].data.token = bluelink._auth.token
                    /\ net[i].data.username = bluelink._auth.username
                    /\ IsAction(net[i]) => net[i].data.pin = bluelink._auth.pin
          /\ \A car \in handles : car._auth = bluelink._auth

\* C6, the steps of it: once populated, the auth context is changed by no
\* operation.
C6_AuthForGood == [][NonEmpty(bluelink._auth) => bluelink'._auth = bluelink._auth]_vars

\* C6: after a login whose final response carries token T the auth context
\* is {account identifier, PIN, T}, no later operation changes it, and every
\* later account-info and vehicle-action request carries T.
C6_TokenUnchanged == []C6_AuthState /\ C6_AuthForGood

\* C6 witness: a vehicle action sent with the session's token on a Car that
\* the one fetch of the session returned.
C6_Witness ==
    /\ last.op \in Funcs
    /\ Len(last.sent) = 1
    /\ last.sent[1].data.token = bluelink._auth.token
    /\ Cardinality(Fetches(net)) = 1

\* ---- C7 ----------------------------------------------------------------
\* C7: a login call on a session not yet logged in sends the anti-forgery
\* GET, the validation GET and the credentials POST in this order, as far as
\* it gets; a validation GET answered non-200 makes it fail with
\* RequestFailed without sending the POST; a final response that is not
\* valid makes it fail with RequestFailed; and whenever it fails the auth
\* context stays empty.
C7_LoginFailures ==
    (last.op = "login" /\ ~NonEmpty(last.args.self._auth)) =>
        /\ Len(last.sent) \in 1..3
        /\ \A i \in 1..Len(last.sent) :
              /\ Path(last.sent[i]) =
                    <<"/etc/designs/ownercommon/us/token.json",
                      "/libs/granite/csrf/token.json", "/bin/common/connectCar">>[i]
              /\ last.sent[i].method = <<"GET", "GET", "POST">>[i]
        /\ (Len(last.sent) >= 2 /\ last.args.status2 # 200) =>
              /\ FailedWith(last.out, "RequestFailed")
              /\ Len(last.sent) = 2
        /\ (Len(last.sent) = 3 /\ ~Valid(last.args.resp3)) =>
              FailedWith(last.out, "RequestFailed")
        /\ last.out.kind = "raise" => ~NonEmpty(bluelink._auth)

\* ---- C8 ----------------------------------------------------------------
NotFoundLine(vin) == <<"Car", "with", "VIN", vin, "not", "found.">>

\* C8: when get finds the VIN not to be a key of the vehicle mapping it
\* prints the not-found line, returns without raising, and sends no
\* vehicle-action request.
C8_NotFoundReturns ==
    (/\ last.op = "get"
     /\ \E i \in 1..Len(last.printed) : last.printed[i] = NotFoundLine(last.args.call.vin)) =>
        /\ last.out.kind = "return"
        /\ \A i \in 1..Len(last.sent) : ~IsAction(last.sent[i])

\* ---- C9 ----------------------------------------------------------------
\* A credential is unset: not passed or passed empty, and the environment
\* has no value for it or an empty one.
Unset(arg, fromEnv) == arg \in {None, ""} /\ fromEnv \in {None, ""}

\* C9: constructing with any of the three credentials unset raises
\* ValueError, sends nothing and produces no object; otherwise it succeeds
\* with an empty auth context and an empty vehicle cache, having sent
\* nothing.
C9_Construction ==
    last.op = "BlueLink" =>
        /\ net = << >>
        /\ IF \/ Unset(last.args.email, last.args.env.BLUELINK_EMAIL)
              \/ Unset(last.args.password, last.args.env.BLUELINK_PASSWORD)
              \/ Unset(last.args.pin, last.args.env.BLUELINK_PIN)
           THEN FailedWith(last.out, "ValueError") /\ ~bluelink.live
           ELSE /\ last.out.kind = "return"
                /\ bluelink.live
                /\ ~NonEmpty(bluelink._auth)
                /\ ~NonEmpty(bluelink._cars)
                /\ bluelink.email \notin {None, ""}
                /\ bluelink.password \notin {None, ""}
                /\ bluelink.pin \notin {None, ""}

\* C9 witness: a construction that fails for the PIN alone.
C9_Witness ==
    /\ last.op = "BlueLink"
    /\ last.args.email = EMAIL
    /\ last.args.env.BLUELINK_PASSWORD = PASSWORD
    /\ Unset(last.args.pin, last.args.env.BLUELINK_PIN)
    /\ FailedWith(last.out, "ValueError")

\* ---- C10 ---------------------------------------------------------------
\* C10: a call of a vehicle action sends exactly one POST, whether it
\* returns or raises, to the maintenance-history path if the action is the
\* odometer read and to the remote-action path otherwise.
C10_OnePostPerAction ==
    last.op \in Funcs =>
        /\ Len(last.sent) = 1
        /\ last.sent[1].method = "POST"
        /\ Path(last.sent[1]) =
              IF last.op = "odometer" THEN MaintenancePath ELSE RemoteActionPath

\* C10 witness: an odometer read that fails, having sent its one POST.
C10_Witness ==
    /\ last.op = "odometer"
    /\ last.out.kind = "raise"
    /\ Len(last.sent) = 1
    /\ Path(last.sent[1]) = MaintenancePath

====
